---- MODULE Spec2Model ----
(***************************************************************************)
(* Model of the Kusto sample client (main.go): the default query mode      *)
(* that streams tables/rows to NDJSON, the three-step health probe         *)
(* (runProbe) and the sample-data initializer (runInitSample).             *)
(*                                                                         *)
(* Text is modelled as a sequence of atoms (words or single characters);   *)
(* the single quote is the atom "'".  An error value carries whether       *)
(* errors.As finds a net.Error in its chain and its message text.          *)
(***************************************************************************)
EXTENDS Integers, Sequences, FiniteSets, TLC

VARIABLES
    mode,        \* os.Args[1]: "query" | "probe" | "init"
    pc,          \* position of the process
    expectMsg,   \* KUSTO_PROBE_EXPECT_MESSAGE after getenv
    stepTimeout, \* KUSTO_PROBE_TIMEOUT after getDurationEnv (clock ticks)
    conn,        \* client: "none" | "open" | "closed"
    stream,      \* dataset: "none" | "open" | "closed"
    calls,       \* remote calls issued so far, in order
    elapsed,     \* clock ticks since the pending call of a probe step was issued
    out,         \* standard output, one element per line
    exitCode,    \* -1 while running, then the exit status
    fatal,       \* the log.Fatalf that ended the run, "" if none
    sample,      \* probe: what the service answered to the sample-data query
    streamErr,   \* default mode: the error of the table or row result received last
    recv,        \* default mode: rows received so far, in arrival order
    tcount,      \* default mode: tables received so far
    table,       \* default mode: the table being iterated
    pin,         \* default mode: the row being projected, with its table
    pout,        \* default mode: the record projected from pin
    remote,      \* the sample table as the service holds it
    runs         \* initializer: the runs so far against that table

vars == << mode, pc, expectMsg, stepTimeout, conn, stream, calls, elapsed,
           out, exitCode, fatal, sample, streamErr, recv, tcount, table, pin, pout,
           remote, runs >>

-----------------------------------------------------------------------------
(* Bounds *)

MaxMarkerLen == 1   \* longest non-default marker text
MaxWait      == 1   \* longest configured per-step timeout, in ticks
MaxTables    == 2   \* tables delivered on one result stream
MaxRows      == 2   \* rows delivered in one table
MaxLen       == 3   \* longest byte payload of a dynamic value
MaxRuns      == 2   \* runs of the initializer against one table

-----------------------------------------------------------------------------
(* Text helpers *)

RECURSIVE SeqsUpTo(_, _)
SeqsUpTo(S, n) ==
    IF n = 0 THEN { <<>> }
    ELSE LET shorter == SeqsUpTo(S, n - 1)
         IN  shorter \cup { Append(s, c) : s \in shorter, c \in S }

\* strings.Contains on atom sequences: pat occurs contiguously in s
Contains(s, pat) ==
    \E i \in 1..(Len(s) - Len(pat) + 1) : SubSeq(s, i, i + Len(pat) - 1) = pat

LowerAtom(a) ==
    CASE a = "Semantic"     -> "semantic"
      [] a = "Table"        -> "table"
      [] a = "Database"     -> "database"
      [] a = "Forbidden"    -> "forbidden"
      [] a = "Unauthorized" -> "unauthorized"
      [] a = "AADSTS"       -> "aadsts"
      [] a = "Timeout"      -> "timeout"
      [] OTHER              -> a

\* strings.ToLower
ToLower(s) == [i \in 1..Len(s) |-> LowerAtom(s[i])]

\* strings.ReplaceAll(s, old, new) for a one-atom old and a text new
RECURSIVE ReplaceAll(_, _, _)
ReplaceAll(s, old, new) ==
    IF s = <<>> THEN <<>>
    ELSE (IF Head(s) = old THEN new ELSE <<Head(s)>>) \o ReplaceAll(Tail(s), old, new)

\* getenv(key, def)
getenv(v, def) == IF v = <<>> THEN def ELSE v

-----------------------------------------------------------------------------
(* Errors *)

NilErr == [nil |-> TRUE, net |-> FALSE, text |-> <<>>]

Err(net, text) == [nil |-> FALSE, net |-> net, text |-> text]

\* what a call returns when its context's deadline passes:
\* context.DeadlineExceeded, which implements net.Error
DeadlineExceeded == Err(TRUE, <<"context", "deadline", "exceeded">>)

\* errors the service or the SDK can return before the deadline
ServiceErrors ==
    { Err(FALSE, <<"dial", "tcp", "no", "such", "host">>),
      Err(TRUE,  <<"connection", "refused">>),
      Err(FALSE, <<"AADSTS", "token", "expired">>),
      Err(FALSE, <<"token", "request", "Timeout">>),
      Err(FALSE, <<"401", "Unauthorized">>),
      Err(FALSE, <<"403", "Forbidden">>),
      Err(FALSE, <<"Database", "x", "not", "found">>),
      Err(FALSE, <<"Database", "x", "not", "found", "or", "insufficient", "permission">>),
      Err(FALSE, <<"Semantic", "error", "Table", "not", "found">>),
      Err(FALSE, <<"Semantic", "error", "name", "not", "resolved", "Forbidden">>),
      Err(FALSE, <<"internal", "error">>) }

\* as isNetworkErr, but only the message text is looked at
isNetworkErr_msgOnly(err) ==
    LET msg == ToLower(err.text)
    IN  \/ Contains(msg, <<"no", "such", "host">>)
        \/ Contains(msg, <<"connection", "refused">>)
        \/ Contains(msg, <<"timeout">>)

isNetworkErr(err) ==
    \/ err.net
    \/ LET msg == ToLower(err.text)
       IN  \/ Contains(msg, <<"no", "such", "host">>)
           \/ Contains(msg, <<"connection", "refused">>)
           \/ Contains(msg, <<"timeout">>)

looksLikeAAD(err) ==
    LET msg == ToLower(err.text)
    IN  \/ Contains(msg, <<"aadsts">>)
        \/ Contains(msg, <<"token">>)
        \/ Contains(msg, <<"credential">>)

isAuthErr(err) ==
    LET msg == ToLower(err.text)
    IN  \/ Contains(msg, <<"unauthorized">>)
        \/ Contains(msg, <<"401">>)
        \/ Contains(msg, <<"authorization">>)

isPermissionErr(err) ==
    LET msg == ToLower(err.text)
    IN  \/ Contains(msg, <<"forbidden">>)
        \/ Contains(msg, <<"403">>)
        \/ Contains(msg, <<"insufficient">>)
        \/ Contains(msg, <<"permission">>)

isDatabaseNotFound(err) ==
    LET msg == ToLower(err.text)
    IN  Contains(msg, <<"database">>) /\ Contains(msg, <<"not", "found">>)

isTableNotFound(err) ==
    LET msg == ToLower(err.text)
    IN  /\ Contains(msg, <<"semantic">>)
        /\ (Contains(msg, <<"table">>) \/ Contains(msg, <<"name">>))
        /\ Contains(msg, <<"not">>)

-----------------------------------------------------------------------------
(* Remediation texts *)

SuggestAuth     == "Ensure Azure auth is available"
SuggestNetwork  == "Verify KUSTO_CLUSTER endpoint is correct and reachable"
SuggestUnknown  == "Check endpoint and authentication."
SuggestDbMiss   == "Database not found. Verify KUSTO_DATABASE or create it"
SuggestDbPerm   == "You may lack database permissions"
SuggestDbOther  == "Verify KUSTO_DATABASE and your permissions."
SuggestInitTbl  == "Run kusto.sh probe or create to initialize the sample table."
SuggestInitData == "Initialize sample data via kusto.sh or verify ingestion."

suggestionForAuth(err) == SuggestAuth

suggestionForEndpointOrAuth(err) ==
    IF isNetworkErr(err) THEN SuggestNetwork
    ELSE IF looksLikeAAD(err) \/ isAuthErr(err) THEN suggestionForAuth(err)
    ELSE SuggestUnknown

suggestionForDatabase(err) ==
    IF isDatabaseNotFound(err) THEN SuggestDbMiss
    ELSE IF isPermissionErr(err) THEN SuggestDbPerm
    ELSE SuggestDbOther

suggestionForPermissions == "Grant your identity read access to the database/table"

suggestionForQuery == "Investigate query or connectivity issues for table"

-----------------------------------------------------------------------------
(* Output lines of the probe *)

Line(status, step, ms, msg, err) ==
    [status |-> status, step |-> step, ms |-> ms, msg |-> msg, err |-> err]

okTimed(step, d, msg) == << Line("OK", step, d, msg, NilErr) >>

\* as failTimed, but the remediation line is left out
failTimed_noSuggest(step, d, msg, err, suggest) ==
    << Line("FAIL", step, d, msg, err) >>

failTimed(step, d, msg, err, suggest) ==
    << Line("FAIL", step, d, msg, err) >>
    \o (IF suggest # "" THEN << Line("SUGGEST", step, 0, <<suggest>>, NilErr) >> ELSE <<>>)

fail(step, msg, err, suggest) ==
    << Line("FAIL", step, 0, msg, err) >>
    \o (IF suggest # "" THEN << Line("SUGGEST", step, 0, <<suggest>>, NilErr) >> ELSE <<>>)

SummaryLine == Line("OK", "probe", 0, <<"endpoint, db, and data access validated">>, NilErr)

-----------------------------------------------------------------------------
(* Configuration *)

Quote == "'"

MarkerAtoms == {"a", Quote}

\* values of KUSTO_PROBE_EXPECT_MESSAGE (<<>> is unset)
EnvMarkers == SeqsUpTo(MarkerAtoms, MaxMarkerLen)

DefaultExpectMsg == <<"kusto-sample-ok">>

sampleTable == "ProbeTest"

database == "sampledb"

DefaultStepTimeout == 3

\* getDurationEnv(key, def): 0 stands for an unset or unparseable value
getDurationEnv(v, def) == IF v = 0 THEN def ELSE v

EnvTimeouts == 0..MaxWait

Call(api, db, text) == [api |-> api, db |-> db, text |-> text]

\* as SampleQuery, but the marker is interpolated as it is
SampleQuery_raw(msg) ==
    <<sampleTable, " | where Message == ", Quote>> \o msg \o <<Quote, " | take 1">>

\* the step-3 filter query of runProbe
SampleQuery(msg) ==
    <<sampleTable, " | where Message == ", Quote>>
    \o ReplaceAll(msg, Quote, <<Quote, Quote>>)
    \o <<Quote, " | take 1">>

\* the append command of runInitSample
AppendCommand(msg) ==
    <<".set-or-append ", sampleTable, " <| print Message=", Quote>>
    \o ReplaceAll(msg, Quote, <<Quote, Quote>>)
    \o <<Quote, ", When=now()">>

\* as CreateCommand, but with the command that refuses an existing table
CreateCommand_noMerge == <<".create table ", sampleTable, " (Message:string, When:datetime)">>

CreateCommand == <<".create-merge table ", sampleTable, " (Message:string, When:datetime)">>

-----------------------------------------------------------------------------
(* The sample table on the service *)

\* Reading a string literal in which a doubled quote stands for one quote:
\* s is the text after the opening quote; lit is the text of the literal and
\* rest what follows its closing quote; ok is FALSE when the literal never ends.
RECURSIVE ReadLiteral(_)
ReadLiteral(s) ==
    IF s = <<>> THEN [ok |-> FALSE, lit |-> <<>>, rest |-> <<>>]
    ELSE IF Head(s) = Quote
         THEN (IF Len(s) >= 2 /\ s[2] = Quote
               THEN LET r == ReadLiteral(SubSeq(s, 3, Len(s)))
                    IN  [ok |-> r.ok, lit |-> <<Quote>> \o r.lit, rest |-> r.rest]
               ELSE [ok |-> TRUE, lit |-> <<>>, rest |-> Tail(s)])
    ELSE LET r == ReadLiteral(Tail(s))
         IN  [ok |-> r.ok, lit |-> <<Head(s)>> \o r.lit, rest |-> r.rest]

\* the sample table: whether it exists, and the Message of each of its rows
\* in the order they were added
Tbl(exists, rows) == [exists |-> exists, rows |-> rows]

\* the tables an initializer run can find
RemoteStates ==
    { Tbl(FALSE, <<>>), Tbl(TRUE, <<>>), Tbl(TRUE, << <<"other">> >>),
      Tbl(TRUE, << <<"other">>, DefaultExpectMsg >>) }

AlreadyExists == Err(FALSE, <<"Entity", "already", "exists">>)

SyntaxError == Err(FALSE, <<"Syntax", "error">>)

\* what the service does with a management command that reaches it:
\* .create-merge creates the table or keeps the one there, .create refuses an
\* existing table, .set-or-append adds the one row its print statement yields
ServiceApply(cmd, tbl) ==
    CASE Head(cmd) = ".create-merge table " ->
           [err |-> NilErr, tbl |-> Tbl(TRUE, tbl.rows)]
      [] Head(cmd) = ".create table " ->
           IF tbl.exists THEN [err |-> AlreadyExists, tbl |-> tbl]
           ELSE [err |-> NilErr, tbl |-> Tbl(TRUE, tbl.rows)]
      [] Head(cmd) = ".set-or-append " ->
           LET r == ReadLiteral(SubSeq(cmd, 5, Len(cmd)))
           IN  IF r.ok /\ cmd[4] = Quote
               THEN [err |-> NilErr, tbl |-> Tbl(TRUE, Append(tbl.rows, r.lit))]
               ELSE [err |-> SyntaxError, tbl |-> tbl]
      [] OTHER -> [err |-> SyntaxError, tbl |-> tbl]

\* what client.Mgmt(ctx, database, cmd) can return, with the table it leaves:
\* the service's answer; a failure before the command reached the service; or
\* the deadline passing, with the command applied or not
MgmtOutcomes(cmd, tbl) ==
    { ServiceApply(cmd, tbl) }
    \cup { [err |-> e, tbl |-> tbl] : e \in ServiceErrors }
    \cup { [err |-> DeadlineExceeded, tbl |-> t] : t \in {tbl, ServiceApply(cmd, tbl).tbl} }

-----------------------------------------------------------------------------
(* Result streams *)

PrimaryResult == "PrimaryResult"

\* the errors a table or row result of a stream can carry
StreamErrors ==
    { Err(FALSE, <<"Semantic", "error", "Table", "not", "found">>),
      Err(FALSE, <<"403", "Forbidden">>) }

RowErr == Err(TRUE, <<"connection", "reset">>)

MaxProbeTables == 2   \* tables on the stream of the sample-data query

\* the row results of one table of that stream: only a row's error matters
ProbeRows == { <<>>, <<NilErr>>, <<RowErr>>, <<NilErr, RowErr>> }

ProbeTableResults ==
    { [err |-> e, name |-> "", rows |-> <<>>] : e \in StreamErrors }
    \cup { [err |-> NilErr, name |-> n, rows |-> r] :
             n \in {PrimaryResult, "QueryCompletionInformation"},
             r \in ProbeRows }

ProbeStreams == SeqsUpTo(ProbeTableResults, MaxProbeTables)

\* as hasAnyRowLoop, but the rows of every table count, not only PrimaryResult's
RECURSIVE hasAnyRowLoop_anyTable(_)
hasAnyRowLoop_anyTable(tables) ==
    IF tables = <<>> THEN [has |-> FALSE, err |-> NilErr]
    ELSE LET tr == Head(tables)
         IN  IF ~tr.err.nil THEN [has |-> FALSE, err |-> tr.err]
             ELSE IF tr.rows # <<>>
                  THEN (IF ~tr.rows[1].nil
                        THEN [has |-> FALSE, err |-> tr.rows[1]]
                        ELSE [has |-> TRUE, err |-> NilErr])
                  ELSE hasAnyRowLoop_anyTable(Tail(tables))

\* the loop of queryHasAnyRow over the tables of an opened stream
RECURSIVE hasAnyRowLoop(_)
hasAnyRowLoop(tables) ==
    IF tables = <<>> THEN [has |-> FALSE, err |-> NilErr]
    ELSE LET tr == Head(tables)
         IN  IF ~tr.err.nil THEN [has |-> FALSE, err |-> tr.err]
             ELSE IF tr.name # PrimaryResult THEN hasAnyRowLoop(Tail(tables))
             ELSE IF tr.rows # <<>>
                  THEN (IF ~tr.rows[1].nil
                        THEN [has |-> FALSE, err |-> tr.rows[1]]
                        ELSE [has |-> TRUE, err |-> NilErr])
                  ELSE hasAnyRowLoop(Tail(tables))

\* queryHasAnyRow: submitErr is what IterativeQuery returned, ds the stream
queryHasAnyRow(submitErr, ds) ==
    IF ~submitErr.nil THEN [has |-> FALSE, err |-> submitErr]
    ELSE hasAnyRowLoop(ds)

-----------------------------------------------------------------------------
(* JSON values, and the values the SDK hands out *)

JV(k, n, s, a) == [k |-> k, n |-> n, s |-> s, a |-> a]

JNull   == JV("null", 0, <<>>, <<>>)
JNum(n) == JV("num", n, <<>>, <<>>)
JStr(s) == JV("str", 0, s, <<>>)
JArr(a) == JV("arr", 0, <<>>, a)
JNaN    == JV("nan", 0, <<>>, <<>>)   \* a float64 NaN: a native value with no JSON encoding

\* a column value v: form "nil" is v == nil; "bytes" is GetValue() a []byte;
\* "ptr" a non-nil *[]byte; "nilptr" a nil *[]byte; "other" any other native value
KV(form, bytes, native) == [form |-> form, bytes |-> bytes, native |-> native]

KNil       == KV("nil", <<>>, JNull)
KNilPtr    == KV("nilptr", <<>>, JNull)
KBytes(b)  == KV("bytes", b, JNull)
KPtr(b)    == KV("ptr", b, JNull)
KOther(jv) == KV("other", <<>>, jv)

\* v.GetValue() of a value that is not a byte payload
GetValue(v) == IF v.form = "other" THEN v.native ELSE JNull

ByteAtoms == {"[", "]", "1", "null"}

Payloads == SeqsUpTo(ByteAtoms, MaxLen)

RECURSIVE DigitsValue(_)
DigitsValue(b) == IF b = <<>> THEN 0 ELSE 10 * DigitsValue(SubSeq(b, 1, Len(b) - 1)) + 1

\* json.Unmarshal(b, &any): numbers, null and arrays of at most one element
RECURSIVE Unmarshal(_)
Unmarshal(b) ==
    IF b = <<>> THEN [ok |-> FALSE, val |-> JNull]
    ELSE IF b = <<"null">> THEN [ok |-> TRUE, val |-> JNull]
    ELSE IF \A i \in 1..Len(b) : b[i] = "1" THEN [ok |-> TRUE, val |-> JNum(DigitsValue(b))]
    ELSE IF Len(b) >= 2 /\ b[1] = "[" /\ b[Len(b)] = "]"
         THEN LET inner == SubSeq(b, 2, Len(b) - 1)
              IN  IF inner = <<>> THEN [ok |-> TRUE, val |-> JArr(<<>>)]
                  ELSE LET p == Unmarshal(inner)
                       IN  IF p.ok THEN [ok |-> TRUE, val |-> JArr(<<p.val>>)]
                           ELSE [ok |-> FALSE, val |-> JNull]
    ELSE [ok |-> FALSE, val |-> JNull]

Col(name, type) == [name |-> name, type |-> type]

Dynamic == "dynamic"

Put(obj, key, val) == [x \in (DOMAIN obj) \cup {key} |-> IF x = key THEN val ELSE obj[x]]

\* as ProjectValue, but a payload that is not JSON is not kept as text
ProjectValue_noFallback(c, v) ==
    IF v.form = "nil" THEN JNull
    ELSE IF c.type = Dynamic /\ v.form \in {"bytes", "ptr"}
         THEN LET p == Unmarshal(v.bytes) IN IF p.ok THEN p.val ELSE JNull
    ELSE IF c.type = Dynamic /\ v.form = "nilptr" THEN JNull
    ELSE GetValue(v)

\* the value main stores for column c holding v
ProjectValue(c, v) ==
    IF v.form = "nil" THEN JNull
    ELSE IF c.type = Dynamic /\ v.form \in {"bytes", "ptr"}
         THEN LET p == Unmarshal(v.bytes) IN IF p.ok THEN p.val ELSE JStr(v.bytes)
    ELSE IF c.type = Dynamic /\ v.form = "nilptr" THEN JNull
    ELSE GetValue(v)

\* the loop of main over the columns i..len(cols), storing into obj
RECURSIVE ProjectCols(_, _, _, _)
ProjectCols(obj, cols, vals, i) ==
    IF i > Len(cols) THEN obj
    ELSE IF i > Len(vals) THEN ProjectCols(obj, cols, vals, i + 1)
    ELSE ProjectCols(Put(obj, cols[i].name, ProjectValue(cols[i], vals[i])), cols, vals, i + 1)

\* the record main builds for a row: the synthetic keys, then the columns
Project(r) ==
    LET obj == [k \in {"_table", "_kind", "_rowIndex"} |->
                  CASE k = "_table" -> JStr(<<r.name>>)
                    [] k = "_kind"  -> JStr(<<r.kind>>)
                    [] OTHER        -> JNum(r.index)]
    IN  ProjectCols(obj, r.cols, r.vals, 1)

\* json.Marshal(obj) fails on a value with no JSON encoding
MarshalFails(obj) == \E k \in DOMAIN obj : obj[k].k = "nan"

-----------------------------------------------------------------------------
(* Initial state: the process has started and read nothing yet *)

NoRow == [name |-> "", kind |-> "", cols |-> <<>>, vals |-> <<>>, index |-> 0]

NoTable == [name |-> "", kind |-> "", cols |-> <<>>, n |-> 0]

NoSample == [err |-> NilErr, ds |-> <<>>]

Modes == {"query", "probe", "init"}

\* the record of the initializer's runs: n runs started, ok of them returned
\* normally; rows0 is the table's rows before the first run, start its rows
\* before this run, err the error that ended this run
FirstRun(tbl) ==
    [n |-> 1, ok |-> 0, rows0 |-> tbl.rows, start |-> tbl.rows, err |-> NilErr]

Init ==
    /\ mode \in Modes
    /\ pc = "start"
    /\ \E m \in EnvMarkers :
         expectMsg = IF mode = "query" THEN DefaultExpectMsg ELSE getenv(m, DefaultExpectMsg)
    /\ \E t \in EnvTimeouts :
         stepTimeout = IF mode = "probe" THEN getDurationEnv(t, DefaultStepTimeout)
                       ELSE DefaultStepTimeout
    /\ conn = "none"
    /\ stream = "none"
    /\ calls = <<>>
    /\ elapsed = 0
    /\ out = <<>>
    /\ exitCode = -1
    /\ fatal = ""
    /\ sample = NoSample
    /\ streamErr = NilErr
    /\ recv = <<>>
    /\ tcount = 0
    /\ table = NoTable
    /\ pin = NoRow
    /\ pout = Project(NoRow)
    /\ remote \in (IF mode = "init" THEN RemoteStates ELSE { Tbl(FALSE, <<>>) })
    /\ runs = FirstRun(remote)

-----------------------------------------------------------------------------
(* Leaving the process *)

\* os.Exit(code), also the end of log.Fatalf: the process ends at once and no
\* deferred call runs, so conn and stream stay as they are
osExit(code, why) ==
    /\ pc' = "exited"
    /\ exitCode' = code
    /\ fatal' = why
    /\ UNCHANGED << conn, stream >>

\* return from main, runProbe or runInitSample: the deferred Close calls run
returnFromMain ==
    /\ pc' = "exited"
    /\ exitCode' = 0
    /\ fatal' = ""
    /\ conn' = IF conn = "open" THEN "closed" ELSE conn
    /\ stream' = IF stream = "open" THEN "closed" ELSE stream

-----------------------------------------------------------------------------
(* Probe mode: runProbe *)

\* context.WithTimeout(context.Background(), d): ticks until the deadline
WithTimeout(d) == d

\* the clock is not followed past this many ticks
ClockCap == DefaultStepTimeout + MaxWait + 1

\* what a call under a context can return after `e` ticks
CallErrors(e, deadline) ==
    IF e >= deadline THEN { DeadlineExceeded } ELSE { NilErr } \cup ServiceErrors

\* resolveClusterURL and azkustodata.New
ProbeSetup ==
    /\ pc = "start" /\ mode = "probe"
    /\ \/ /\ osExit(1, "cluster not provided")
          /\ UNCHANGED out
       \/ \E err \in ServiceErrors :
            /\ out' = out \o fail("auth/client", <<"failed to create Kusto client">>, err,
                                  suggestionForAuth(err))
            /\ osExit(1, "")
       \/ /\ conn' = "open"
          /\ pc' = "step1"
          /\ UNCHANGED << out, exitCode, fatal, stream >>
    /\ UNCHANGED << remote, runs, mode, expectMsg, stepTimeout, calls, elapsed, sample,
                    streamErr, recv, tcount, table, pin, pout >>

\* step 1: the context is made and client.Mgmt is called
Step1Issue ==
    /\ pc = "step1"
    /\ calls' = Append(calls, Call("Mgmt", "", <<".show version">>))
    /\ elapsed' = 0
    /\ pc' = "step1_wait"
    /\ UNCHANGED << remote, runs, mode, expectMsg, stepTimeout, conn, stream, out, exitCode, fatal,
                    sample, streamErr, recv, tcount, table, pin, pout >>

\* step 2: the context is made and client.Query is called
Step2Issue ==
    /\ pc = "step2"
    /\ calls' = Append(calls, Call("Query", database, <<"print 1">>))
    /\ elapsed' = 0
    /\ pc' = "step2_wait"
    /\ UNCHANGED << remote, runs, mode, expectMsg, stepTimeout, conn, stream, out, exitCode, fatal,
                    sample, streamErr, recv, tcount, table, pin, pout >>

\* step 3: the filter query is built and queryHasAnyRow is called
Step3Issue ==
    /\ pc = "step3"
    /\ calls' = Append(calls, Call("IterativeQuery", database, SampleQuery(expectMsg)))
    /\ elapsed' = 0
    /\ pc' = "step3_wait"
    /\ UNCHANGED << remote, runs, mode, expectMsg, stepTimeout, conn, stream, out, exitCode, fatal,
                    sample, streamErr, recv, tcount, table, pin, pout >>

\* time passes while a step's call is pending
Tick ==
    /\ pc \in {"step1_wait", "step2_wait", "step3_wait"}
    /\ elapsed < WithTimeout(stepTimeout)
    /\ elapsed < ClockCap
    /\ elapsed' = elapsed + 1
    /\ UNCHANGED << remote, runs, mode, pc, expectMsg, stepTimeout, conn, stream, calls, out, exitCode,
                    fatal, sample, streamErr, recv, tcount, table, pin, pout >>

\* step 1 after client.Mgmt returned mgmtErr
Step1Lines(d, mgmtErr) ==
    IF ~mgmtErr.nil
    THEN failTimed("mgmt", d, <<".show version failed">>, mgmtErr,
                   suggestionForEndpointOrAuth(mgmtErr))
    ELSE okTimed("mgmt", d, <<"cluster reachable">>)

\* as Step1Return, but a failed management call does not stop the probe
Step1Return_goesOn ==
    /\ pc = "step1_wait"
    /\ \E mgmtErr \in CallErrors(elapsed, WithTimeout(stepTimeout)) :
         /\ out' = out \o Step1Lines(elapsed, mgmtErr)
         /\ pc' = "step2"
         /\ UNCHANGED << conn, stream, exitCode, fatal >>
    /\ UNCHANGED << remote, runs, mode, expectMsg, stepTimeout, calls, elapsed, sample,
                    streamErr, recv, tcount, table, pin, pout >>

Step1Return ==
    /\ pc = "step1_wait"
    /\ \E mgmtErr \in CallErrors(elapsed, WithTimeout(stepTimeout)) :
         /\ out' = out \o Step1Lines(elapsed, mgmtErr)
         /\ IF ~mgmtErr.nil
            THEN osExit(1, "")
            ELSE /\ pc' = "step2"
                 /\ UNCHANGED << conn, stream, exitCode, fatal >>
    /\ UNCHANGED << remote, runs, mode, expectMsg, stepTimeout, calls, elapsed, sample,
                    streamErr, recv, tcount, table, pin, pout >>

\* step 2 after client.Query returned qErr
Step2Lines(d, qErr) ==
    IF ~qErr.nil
    THEN failTimed("database", d, <<"basic query failed">>, qErr, suggestionForDatabase(qErr))
    ELSE okTimed("database", d, <<"db ok: ", database>>)

\* as Step2Return, but a failed query is issued once more
Step2Return_retry ==
    /\ pc = "step2_wait"
    /\ \E qErr \in CallErrors(elapsed, WithTimeout(stepTimeout)) :
         IF ~qErr.nil /\ Len(calls) < 3
         THEN /\ pc' = "step2"
              /\ UNCHANGED << out, conn, stream, exitCode, fatal >>
         ELSE /\ out' = out \o Step2Lines(elapsed, qErr)
              /\ IF ~qErr.nil
                 THEN osExit(1, "")
                 ELSE /\ pc' = "step3"
                      /\ UNCHANGED << conn, stream, exitCode, fatal >>
    /\ UNCHANGED << remote, runs, mode, expectMsg, stepTimeout, calls, elapsed, sample,
                    streamErr, recv, tcount, table, pin, pout >>

Step2Return ==
    /\ pc = "step2_wait"
    /\ \E qErr \in CallErrors(elapsed, WithTimeout(stepTimeout)) :
         /\ out' = out \o Step2Lines(elapsed, qErr)
         /\ IF ~qErr.nil
            THEN osExit(1, "")
            ELSE /\ pc' = "step3"
                 /\ UNCHANGED << conn, stream, exitCode, fatal >>
    /\ UNCHANGED << remote, runs, mode, expectMsg, stepTimeout, calls, elapsed, sample,
                    streamErr, recv, tcount, table, pin, pout >>

\* as Step3Lines, but the permission test comes before the table test
Step3Lines_permFirst(d, r, msg) ==
    IF ~r.err.nil
    THEN (IF isPermissionErr(r.err)
          THEN failTimed("data-sample", d, <<"no access to sample table: ", sampleTable>>,
                         r.err, suggestionForPermissions)
          ELSE IF isTableNotFound(r.err)
          THEN failTimed("data-sample", d, <<"sample table not found: ", sampleTable>>,
                         r.err, SuggestInitTbl)
          ELSE failTimed("data-sample", d, <<"query failed for sample table">>,
                         r.err, suggestionForQuery))
    ELSE IF ~r.has
    THEN failTimed("data-sample", d,
                   <<"expected row not found in ", sampleTable, " (Message=='">>
                     \o msg \o <<"')">>,
                   NilErr, SuggestInitData)
    ELSE okTimed("data-sample", d, <<"sample table ok: ", sampleTable, " contains expected data">>)
         \o << SummaryLine >>

\* step 3 after queryHasAnyRow returned r = (has, derr)
Step3Lines(d, r, msg) ==
    IF ~r.err.nil
    THEN (IF isTableNotFound(r.err)
          THEN failTimed("data-sample", d, <<"sample table not found: ", sampleTable>>,
                         r.err, SuggestInitTbl)
          ELSE IF isPermissionErr(r.err)
          THEN failTimed("data-sample", d, <<"no access to sample table: ", sampleTable>>,
                         r.err, suggestionForPermissions)
          ELSE failTimed("data-sample", d, <<"query failed for sample table">>,
                         r.err, suggestionForQuery))
    ELSE IF ~r.has
    THEN failTimed("data-sample", d,
                   <<"expected row not found in ", sampleTable, " (Message=='">>
                     \o msg \o <<"')">>,
                   NilErr, SuggestInitData)
    ELSE okTimed("data-sample", d, <<"sample table ok: ", sampleTable, " contains expected data">>)
         \o << SummaryLine >>

Step3Return ==
    /\ pc = "step3_wait"
    /\ \E submitErr \in CallErrors(elapsed, WithTimeout(stepTimeout)),
          ds \in ProbeStreams :
         /\ submitErr.nil \/ ds = <<>>
         /\ sample' = [err |-> submitErr, ds |-> ds]
         /\ LET r == queryHasAnyRow(submitErr, ds)
            IN  /\ out' = out \o Step3Lines(elapsed, r, expectMsg)
                /\ IF ~r.err.nil \/ ~r.has
                   THEN \* the stream, if one was opened, was closed by queryHasAnyRow
                        /\ pc' = "exited"
                        /\ exitCode' = 1
                        /\ fatal' = ""
                        /\ stream' = IF submitErr.nil THEN "closed" ELSE stream
                        /\ UNCHANGED conn
                   ELSE /\ pc' = "exited"
                        /\ exitCode' = 0
                        /\ fatal' = ""
                        /\ stream' = "closed"
                        /\ conn' = "closed"
    /\ UNCHANGED << remote, runs, mode, expectMsg, stepTimeout, calls, elapsed,
                    streamErr, recv, tcount, table, pin, pout >>

-----------------------------------------------------------------------------
(* Initializer mode: runInitSample *)

ConfirmLine(msg) ==
    Line("INIT", "init-sample", 0,
         <<"Initialized sample table ", sampleTable, " with message '">> \o msg \o <<"'">>,
         NilErr)

\* resolveClusterURL and azkustodata.New
InitSetup ==
    /\ pc = "start" /\ mode = "init"
    /\ \/ osExit(1, "cluster not provided")
       \/ osExit(1, "failed creating Kusto client")
       \/ /\ conn' = "open"
          /\ pc' = "create"
          /\ UNCHANGED << exitCode, fatal, stream >>
    /\ UNCHANGED << remote, runs, mode, expectMsg, stepTimeout, calls, elapsed, out, sample,
                    streamErr, recv, tcount, table, pin, pout >>

\* client.Mgmt(ctx, database, qCreate)
InitCreate ==
    /\ pc = "create"
    /\ calls' = Append(calls, Call("Mgmt", database, CreateCommand))
    /\ \E o \in MgmtOutcomes(CreateCommand, remote) :
         /\ remote' = o.tbl
         /\ runs' = [runs EXCEPT !.err = o.err]
         /\ IF ~o.err.nil
            THEN osExit(1, "failed to create/merge sample table")
            ELSE /\ pc' = "append"
                 /\ UNCHANGED << conn, stream, exitCode, fatal >>
    /\ UNCHANGED << mode, expectMsg, stepTimeout, elapsed, out, sample,
                    streamErr, recv, tcount, table, pin, pout >>

\* client.Mgmt(ctx, database, qAppend), the confirmation line and the return
InitAppend ==
    /\ pc = "append"
    /\ calls' = Append(calls, Call("Mgmt", database, AppendCommand(expectMsg)))
    /\ \E o \in MgmtOutcomes(AppendCommand(expectMsg), remote) :
         /\ remote' = o.tbl
         /\ IF ~o.err.nil
            THEN /\ osExit(1, "failed to append sample row")
                 /\ runs' = [runs EXCEPT !.err = o.err]
                 /\ UNCHANGED out
            ELSE /\ out' = Append(out, ConfirmLine(expectMsg))
                 /\ runs' = [runs EXCEPT !.ok = @ + 1]
                 /\ returnFromMain
    /\ UNCHANGED << mode, expectMsg, stepTimeout, elapsed, sample,
                    streamErr, recv, tcount, table, pin, pout >>

\* the operator starts the initializer again, with the same configuration
Rerun ==
    /\ mode = "init" /\ pc = "exited"
    /\ runs.n < MaxRuns
    /\ runs' = [runs EXCEPT !.n = @ + 1, !.start = remote.rows, !.err = NilErr]
    /\ pc' = "start"
    /\ conn' = "none"
    /\ calls' = <<>>
    /\ out' = <<>>
    /\ exitCode' = -1
    /\ fatal' = ""
    /\ UNCHANGED << remote, mode, expectMsg, stepTimeout, stream, elapsed, sample,
                    streamErr, recv, tcount, table, pin, pout >>

-----------------------------------------------------------------------------
(* Default mode: main *)

DefaultQuery == <<"cluster('help').database('Samples').StormEvents | take 5">>

\* the tables a stream of the default mode delivers, each with the rows it can hold
Headers ==
    { [name |-> PrimaryResult, kind |-> "PrimaryResult",
       cols |-> << Col("Value", Dynamic) >>],
      [name |-> PrimaryResult, kind |-> "PrimaryResult",
       cols |-> << Col("_table", "string"), Col("x", "real") >>],
      [name |-> "@ExtendedProperties", kind |-> "QueryProperties",
       cols |-> << Col("Key", "string") >>] }

RowsOf(cols) ==
    IF cols = << Col("Value", Dynamic) >>
    THEN { << KBytes(<<"[", "1", "]">>) >>, << KPtr(<<"[">>) >> }
    ELSE IF cols = << Col("_table", "string"), Col("x", "real") >>
    THEN { << KOther(JStr(<<"s">>)), KOther(JNum(1)) >>,
           << KOther(JStr(<<"s">>)), KOther(JNaN) >> }
    ELSE { << KOther(JStr(<<"Visualization">>)) >> }

\* the getenvOrExit calls and azkustodata.New
QuerySetup ==
    /\ pc = "start" /\ mode = "query"
    /\ \/ osExit(1, "environment variable is required")
       \/ osExit(1, "failed creating Kusto client")
       \/ /\ conn' = "open"
          /\ pc' = "submit"
          /\ UNCHANGED << exitCode, fatal, stream >>
    /\ UNCHANGED << remote, runs, mode, expectMsg, stepTimeout, calls, elapsed, out, sample,
                    streamErr, recv, tcount, table, pin, pout >>

\* client.IterativeQuery(ctx, database, q)
QuerySubmit ==
    /\ pc = "submit"
    /\ calls' = Append(calls, Call("IterativeQuery", database, DefaultQuery))
    /\ \E err \in {NilErr, DeadlineExceeded} \cup ServiceErrors :
         IF ~err.nil
         THEN osExit(1, "query submission failed")
         ELSE /\ stream' = "open"
              /\ pc' = "tables"
              /\ UNCHANGED << conn, exitCode, fatal >>
    /\ UNCHANGED << remote, runs, mode, expectMsg, stepTimeout, elapsed, out, sample,
                    streamErr, recv, tcount, table, pin, pout >>

\* one turn of `for tableResult := range tables`
RecvTable ==
    /\ pc = "tables"
    /\ \/ \* the channel is closed: main returns
          /\ returnFromMain
          /\ UNCHANGED << tcount, table, streamErr >>
       \/ \* a table result carrying an error
          /\ tcount < MaxTables
          /\ \E e \in StreamErrors : streamErr' = e
          /\ osExit(1, "table error")
          /\ UNCHANGED << tcount, table >>
       \/ \* a table
          /\ tcount < MaxTables
          /\ \E h \in Headers :
               table' = [name |-> h.name, kind |-> h.kind, cols |-> h.cols, n |-> 0]
          /\ tcount' = tcount + 1
          /\ pc' = "rows"
          /\ UNCHANGED << conn, stream, exitCode, fatal, streamErr >>
    /\ UNCHANGED << remote, runs, mode, expectMsg, stepTimeout, calls, elapsed, out, sample,
                    recv, pin, pout >>

\* as RecvRow, but a row result carrying an error is skipped
RecvRow_skipsError ==
    /\ pc = "rows"
    /\ \/ \* the table has no more rows
          /\ pc' = "tables"
          /\ UNCHANGED << conn, stream, exitCode, fatal, table, recv, pin, streamErr >>
       \/ \* a row result carrying an error
          /\ table.n < MaxRows
          /\ streamErr' = RowErr
          /\ table' = [table EXCEPT !.n = @ + 1]
          /\ UNCHANGED << pc, conn, stream, exitCode, fatal, recv, pin >>
       \/ \* a row; the SDK numbers the rows of a table from 0
          /\ table.n < MaxRows
          /\ \E vals \in RowsOf(table.cols) :
               LET r == [name |-> table.name, kind |-> table.kind, cols |-> table.cols,
                         vals |-> vals, index |-> table.n]
               IN  /\ pin' = r
                   /\ recv' = Append(recv, r)
          /\ table' = [table EXCEPT !.n = @ + 1]
          /\ pc' = "emit"
          /\ UNCHANGED << conn, stream, exitCode, fatal, streamErr >>
    /\ UNCHANGED << remote, runs, mode, expectMsg, stepTimeout, calls, elapsed, out, sample,
                    tcount, pout >>

\* one turn of `for rowResult := range table.Rows()`, up to row.Values()
RecvRow ==
    /\ pc = "rows"
    /\ \/ \* the table has no more rows
          /\ pc' = "tables"
          /\ UNCHANGED << conn, stream, exitCode, fatal, table, recv, pin, streamErr >>
       \/ \* a row result carrying an error
          /\ table.n < MaxRows
          /\ streamErr' = RowErr
          /\ osExit(1, "row error")
          /\ UNCHANGED << table, recv, pin >>
       \/ \* a row; the SDK numbers the rows of a table from 0
          /\ table.n < MaxRows
          /\ \E vals \in RowsOf(table.cols) :
               LET r == [name |-> table.name, kind |-> table.kind, cols |-> table.cols,
                         vals |-> vals, index |-> table.n]
               IN  /\ pin' = r
                   /\ recv' = Append(recv, r)
          /\ table' = [table EXCEPT !.n = @ + 1]
          /\ pc' = "emit"
          /\ UNCHANGED << conn, stream, exitCode, fatal, streamErr >>
    /\ UNCHANGED << remote, runs, mode, expectMsg, stepTimeout, calls, elapsed, out, sample,
                    tcount, pout >>

\* as Emit, but the record is put before the lines already printed
Emit_prepend(o, obj) == <<obj>> \o o

\* standard output after the record obj was built
Emit(o, obj) == Append(o, obj)

\* the rest of the turn: build the record, marshal it, print it
EmitRow ==
    /\ pc = "emit"
    /\ pout' = Project(pin)
    /\ IF MarshalFails(pout')
       THEN /\ osExit(1, "failed to marshal row as JSON")
            /\ UNCHANGED out
       ELSE /\ out' = Emit(out, pout')
            /\ pc' = "rows"
            /\ UNCHANGED << conn, stream, exitCode, fatal >>
    /\ UNCHANGED << remote, runs, mode, expectMsg, stepTimeout, calls, elapsed, sample,
                    streamErr, recv, tcount, table, pin >>

-----------------------------------------------------------------------------
(* Specifications *)

Next ==
    \/ ProbeSetup \/ Step1Issue \/ Step1Return \/ Step2Issue \/ Step2Return
    \/ Step3Issue \/ Step3Return \/ Tick
    \/ InitSetup \/ InitCreate \/ InitAppend
    \/ QuerySetup \/ QuerySubmit \/ RecvTable \/ RecvRow \/ EmitRow

Spec == Init /\ [][Next]_vars

\* The projector on its own: main has received the first row of the first
\* table of a stream and is about to build its record.  The row is drawn
\* from every value a dynamic column can hold.

DynValues == { KNil, KNilPtr } \cup { KBytes(b) : b \in Payloads } \cup { KPtr(b) : b \in Payloads }

NativeValues == { KNil, KOther(JNum(1)), KOther(JStr(<<"s">>)), KOther(JNaN) }

ProjectRows ==
    { [name |-> PrimaryResult, kind |-> "PrimaryResult", index |-> 0,
       cols |-> << Col(n, Dynamic) >>, vals |-> << v >>] :
        n \in {"Value", "_table"}, v \in DynValues }
    \cup { [name |-> PrimaryResult, kind |-> "PrimaryResult", index |-> 0,
            cols |-> << Col("x", "real"), Col("Value", Dynamic) >>, vals |-> vs] :
             vs \in { <<n>> : n \in NativeValues }
                    \cup { <<n, v>> : n \in NativeValues, v \in DynValues } }

InitProject ==
    /\ mode = "query"
    /\ pc = "emit"
    /\ expectMsg = DefaultExpectMsg
    /\ stepTimeout = DefaultStepTimeout
    /\ conn = "open"
    /\ stream = "open"
    /\ calls = << Call("IterativeQuery", database, DefaultQuery) >>
    /\ elapsed = 0
    /\ out = <<>>
    /\ exitCode = -1
    /\ fatal = ""
    /\ sample = NoSample
    /\ streamErr = NilErr
    /\ pin \in ProjectRows
    /\ recv = << pin >>
    /\ tcount = 1
    /\ table = [name |-> pin.name, kind |-> pin.kind, cols |-> pin.cols, n |-> 1]
    /\ pout = Project(NoRow)
    /\ remote = Tbl(FALSE, <<>>)
    /\ runs = FirstRun(remote)

NextProject == EmitRow

SpecProject == InitProject /\ [][NextProject]_vars

\* The initializer run again and again against the same table.

InitRuns == Init /\ mode = "init"

NextRuns == InitSetup \/ InitCreate \/ InitAppend \/ Rerun

SpecRuns == InitRuns /\ [][NextRuns]_vars

-----------------------------------------------------------------------------
(* Default mode: claims about the projector *)

\* main has built the record pout of the row pin
Projected == mode = "query" /\ pc # "emit" /\ recv # <<>>

\* C5: in the record built for a row, the field of every dynamic column that
\* has a value is null when the value is nil or a nil pointer, the parsed JSON
\* when the payload is valid JSON, and the payload as text when it is not; the
\* field of every other column is its native value; and the run never ends on
\* a marshal failure unless a column that is not dynamic holds a value with no
\* JSON encoding.
C5_Projection ==
    Projected =>
        /\ \A j \in 1..Len(pin.cols) :
             j <= Len(pin.vals) =>
               LET c == pin.cols[j]
                   v == pin.vals[j]
               IN  /\ c.name \in DOMAIN pout
                   /\ IF c.type = Dynamic
                      THEN /\ v.form \in {"nil", "nilptr"} => pout[c.name] = JNull
                           /\ (v.form \in {"bytes", "ptr"} /\ Unmarshal(v.bytes).ok) =>
                                pout[c.name] = Unmarshal(v.bytes).val
                           /\ (v.form \in {"bytes", "ptr"} /\ ~Unmarshal(v.bytes).ok) =>
                                pout[c.name] = JStr(v.bytes)
                      ELSE pout[c.name] = (IF v.form = "nil" THEN JNull ELSE v.native)
        /\ fatal = "failed to marshal row as JSON" =>
             \E j \in 1..Len(pin.vals) :
                 pin.cols[j].type # Dynamic /\ pin.vals[j].native = JNaN

\* a record was printed whose dynamic field is the text of a payload that is
\* not JSON
C5_Witness ==
    /\ Projected /\ out # <<>>
    /\ \E j \in 1..Len(pin.vals) :
         /\ pin.cols[j].type = Dynamic
         /\ pin.vals[j].form = "ptr"
         /\ Len(pin.vals[j].bytes) >= 2
         /\ ~Unmarshal(pin.vals[j].bytes).ok
         /\ out[Len(out)][pin.cols[j].name] = JStr(pin.vals[j].bytes)

-----------------------------------------------------------------------------
(* Default mode: claims about the stream *)

SyntheticKeys == {"_table", "_kind", "_rowIndex"}

\* C6 as claimed: every printed record has the keys _table, _kind and
\* _rowIndex, holding the name and the kind of the table its row came from and
\* the row's index in that table, whatever the table's column names are.
C6_SyntheticKeys ==
    mode = "query" =>
        \A i \in 1..Len(out) :
            /\ i <= Len(recv)
            /\ SyntheticKeys \subseteq DOMAIN out[i]
            /\ out[i]["_table"] = JStr(<<recv[i].name>>)
            /\ out[i]["_kind"] = JStr(<<recv[i].kind>>)
            /\ out[i]["_rowIndex"] = JNum(recv[i].index)

\* the printed lines are the records of the first n received rows, in order
RecordsOfFirst(n) ==
    /\ Len(out) = n
    /\ n <= Len(recv)
    /\ \A i \in 1..n : out[i] = Project(recv[i])

\* C7 as claimed: the printed records are the records of the received rows in
\* arrival order, one per received row: all of them whenever main is not in
\* the middle of a row, all but the row in hand otherwise.
C7_OneRecordPerRow ==
    mode = "query" =>
        IF pc = "emit" THEN RecordsOfFirst(Len(recv) - 1) ELSE RecordsOfFirst(Len(recv))

\* C7 as amended: the printed records are the records of the received rows in
\* arrival order, none twice and none out of place; every received row has
\* its record printed before the next row is taken, except that a row whose
\* record json.Marshal rejects gets no record and ends the run with status 1.
C7_EmissionOrder ==
    mode = "query" =>
        \/ RecordsOfFirst(Len(recv)) /\ pc # "emit"
                                     /\ fatal # "failed to marshal row as JSON"
        \/ /\ recv # <<>>
           /\ RecordsOfFirst(Len(recv) - 1)
           /\ \/ pc = "emit"
              \/ /\ pc = "exited" /\ exitCode = 1
                 /\ fatal = "failed to marshal row as JSON"
                 /\ MarshalFails(Project(recv[Len(recv)]))

\* a run that printed the records of three rows of two tables and returned
C7_Witness ==
    /\ mode = "query" /\ pc = "exited" /\ exitCode = 0
    /\ tcount = 2 /\ Len(recv) = 3 /\ Len(out) = 3
    /\ recv[1].index = 0 /\ recv[2].index = 1 /\ recv[3].index = 0

\* C8: once a table result or a row result carrying an error has been
\* received, the process has exited with status 1 on that element, and the
\* printed records are exactly the records of the rows received before it.
C8_StreamErrorFatal ==
    ~streamErr.nil =>
        /\ pc = "exited" /\ exitCode = 1
        /\ fatal \in {"table error", "row error"}
        /\ RecordsOfFirst(Len(recv))

\* a row error arrived after two rows had been printed
C8_Witness ==
    /\ ~streamErr.nil /\ fatal = "row error"
    /\ Len(recv) = 2 /\ Len(out) = 2

-----------------------------------------------------------------------------
(* Probe mode: claims *)

ProbeStepNames == <<"mgmt", "database", "data-sample">>

ProbeStepPcs(k) == { <<"step1", "step2", "step3">>[k + 1],
                     <<"step1_wait", "step2_wait", "step3_wait">>[k + 1] }

ProbeCallApis == <<"Mgmt", "Query", "IterativeQuery">>

IsStepLine(l, status, k) ==
    k \in 1..3 /\ l.status = status /\ l.step = ProbeStepNames[k]

\* the index of the first FAIL line of out, 0 if there is none
FirstFail ==
    IF \E i \in 1..Len(out) : out[i].status = "FAIL"
    THEN CHOOSE i \in 1..Len(out) :
           out[i].status = "FAIL" /\ \A j \in 1..(i - 1) : out[j].status # "FAIL"
    ELSE 0

\* C1: in probe mode the remote calls are issued in the order management,
\* database, sample-data; the database call is issued only after the
\* management step printed OK, the sample-data query only after the database
\* step printed OK, and once a step has failed the calls issued are exactly
\* those up to the failing step: no later check's call is issued.
C1_ProbeOrder ==
    mode = "probe" =>
        /\ Len(calls) <= 3
        /\ \A k \in 1..Len(calls) : calls[k].api = ProbeCallApis[k]
        /\ \A k \in 2..Len(calls) :
             /\ Len(out) >= k - 1
             /\ \A j \in 1..(k - 1) : IsStepLine(out[j], "OK", j)
        /\ FirstFail # 0 =>
             /\ pc = "exited"
             /\ \/ IsStepLine(out[FirstFail], "FAIL", Len(calls)) /\ FirstFail = Len(calls)
                \/ out[FirstFail].step = "auth/client" /\ calls = <<>>

\* a probe run that stopped at a failing database step: two calls were issued
C1_Witness ==
    /\ mode = "probe" /\ pc = "exited" /\ exitCode = 1
    /\ Len(calls) = 2 /\ Len(out) = 3
    /\ IsStepLine(out[2], "FAIL", 2)

\* C2 as claimed: whenever the process has exited, no connection and no
\* result stream is left open.
C2_ReleasedOnExit ==
    pc = "exited" => conn # "open" /\ stream # "open"

\* what the service answered to the sample-data query
SampleNoError ==
    /\ sample.err.nil
    /\ \A i \in 1..Len(sample.ds) :
         /\ sample.ds[i].err.nil
         /\ \A j \in 1..Len(sample.ds[i].rows) : sample.ds[i].rows[j].nil

SampleHasRow ==
    \E i \in 1..Len(sample.ds) :
        sample.ds[i].name = PrimaryResult /\ sample.ds[i].rows # <<>>

SampleTableError == \E i \in 1..Len(sample.ds) : ~sample.ds[i].err.nil

SamplePrimaryRowError ==
    \E i \in 1..Len(sample.ds) :
        /\ sample.ds[i].name = PrimaryResult
        /\ \E j \in 1..Len(sample.ds[i].rows) : ~sample.ds[i].rows[j].nil

Step3Done == mode = "probe" /\ pc = "exited" /\ Len(calls) = 3

QueryFailureMsgs ==
    { <<"sample table not found: ", sampleTable>>,
      <<"no access to sample table: ", sampleTable>>,
      <<"query failed for sample table">> }

IsRowNotFoundLine(l) ==
    /\ IsStepLine(l, "FAIL", 3)
    /\ Contains(l.msg, <<"expected row not found in ">>)
    /\ l.err.nil

\* C3: after the sample-data step, (a) an answer without any error holding at
\* least one row in the primary result gives the OK line "... contains
\* expected data" and exit 0; (b) an answer without any error and without a
\* row gives the FAIL line "expected row not found ..." carrying no error, and
\* exit 1; (c) the row-not-found line is printed only when neither the
\* submission nor a table nor a primary-result row carried an error, and a
\* submission error is reported by one of the three query-failure lines
\* carrying that error.
C3_SampleStep ==
    Step3Done =>
        /\ Len(out) >= 3
        /\ (SampleNoError /\ SampleHasRow) =>
             /\ IsStepLine(out[3], "OK", 3)
             /\ Contains(out[3].msg, <<" contains expected data">>)
             /\ exitCode = 0
        /\ (SampleNoError /\ ~SampleHasRow) =>
             /\ IsRowNotFoundLine(out[3])
             /\ exitCode = 1
        /\ IsRowNotFoundLine(out[3]) =>
             /\ sample.err.nil /\ ~SampleTableError /\ ~SamplePrimaryRowError
        /\ ~sample.err.nil =>
             /\ IsStepLine(out[3], "FAIL", 3)
             /\ out[3].msg \in QueryFailureMsgs
             /\ out[3].err = sample.err
             /\ exitCode = 1

\* the sample-data step found no row in an answer that carried no error
C3_Witness ==
    /\ Step3Done /\ SampleNoError /\ ~SampleHasRow /\ sample.ds # <<>>
    /\ IsRowNotFoundLine(out[3])

\* the OK lines of the first k steps, in step order, open the output
OkPrefix(k) ==
    /\ Len(out) >= k
    /\ \A j \in 1..k : IsStepLine(out[j], "OK", j)

\* C4: in a probe run whose steps are executed, the output is at every moment
\* one OK line per completed step, in step order; a run that ends on a failure
\* in step k+1 has printed k OK lines, then one FAIL line and one SUGGEST line
\* for that step, and exits non-zero; the summary line is printed once, last,
\* after three OK lines, and only then is the exit status 0.
C4_ProbeOutput ==
    (mode = "probe" /\ conn # "none") =>
        \/ /\ pc # "exited"
           /\ \E k \in 0..2 :
                /\ OkPrefix(k) /\ Len(out) = k
                /\ pc \in ProbeStepPcs(k)
        \/ /\ pc = "exited" /\ exitCode = 0
           /\ OkPrefix(3) /\ Len(out) = 4 /\ out[4] = SummaryLine
           /\ \A j \in 1..3 : out[j] # SummaryLine
        \/ /\ pc = "exited" /\ exitCode # 0
           /\ \E k \in 0..2 :
                /\ OkPrefix(k) /\ Len(out) = k + 2
                /\ IsStepLine(out[k + 1], "FAIL", k + 1)
                /\ IsStepLine(out[k + 2], "SUGGEST", k + 1)
                /\ Len(calls) = k + 1

\* a probe run that passed two steps and failed the third
C4_Witness ==
    /\ mode = "probe" /\ pc = "exited" /\ exitCode = 1
    /\ OkPrefix(2) /\ Len(out) = 4
    /\ IsStepLine(out[3], "FAIL", 3) /\ IsStepLine(out[4], "SUGGEST", 3)

-----------------------------------------------------------------------------
(* Quoting of the marker *)

QuoteCount(s) == Cardinality({ i \in 1..Len(s) : s[i] = Quote })

\* the text t opens with `prefix`, whose last atom opens a literal; the literal
\* holds the marker, each of its quotes written twice, and `suffix` follows it
MarkerInOneLiteral(t, prefix, suffix) ==
    /\ Len(t) >= Len(prefix)
    /\ SubSeq(t, 1, Len(prefix)) = prefix
    /\ LET r == ReadLiteral(SubSeq(t, Len(prefix) + 1, Len(t)))
       IN  r.ok /\ r.lit = expectMsg /\ r.rest = suffix
    /\ QuoteCount(t) = 2 + 2 * QuoteCount(expectMsg)

\* C9: the filter query issued by probe step 3 and the append command issued
\* by the initializer hold the marker inside one string literal: read with a
\* doubled quote standing for one quote, the literal after the opening quote
\* is exactly the marker text, and the rest of the query follows it unchanged.
C9_MarkerQuoted ==
    /\ mode = "probe" =>
         \A k \in 3..Len(calls) :
             MarkerInOneLiteral(calls[k].text,
                                <<sampleTable, " | where Message == ", Quote>>,
                                <<" | take 1">>)
    /\ mode = "init" =>
         \A k \in 2..Len(calls) :
             MarkerInOneLiteral(calls[k].text,
                                <<".set-or-append ", sampleTable, " <| print Message=", Quote>>,
                                <<", When=now()">>)

\* the sample-data query was issued for a marker that holds a quote
C9_Witness ==
    /\ mode = "probe" /\ Len(calls) = 3
    /\ QuoteCount(expectMsg) >= 1
    /\ QuoteCount(calls[3].text) = 2 + 2 * QuoteCount(expectMsg)

-----------------------------------------------------------------------------
(* The management call running into its deadline *)

\* C10: the probe never waits for the management call past the configured
\* per-step timeout; a management step that lasted the whole timeout failed
\* on the deadline; and a management call that failed on the deadline is
\* reported as FAIL mgmt, timed within the timeout, followed by the SUGGEST
\* line with the network remediation, with exit status 1 and no other call
\* issued.
C10_MgmtTimeout ==
    mode = "probe" =>
        /\ pc = "step1_wait" => elapsed <= stepTimeout
        /\ (out # <<>> /\ out[1].step = "mgmt" /\ out[1].ms >= stepTimeout) =>
             out[1].status = "FAIL" /\ out[1].err = DeadlineExceeded
        /\ (out # <<>> /\ out[1].step = "mgmt" /\ out[1].err = DeadlineExceeded) =>
             /\ out = << Line("FAIL", "mgmt", out[1].ms, <<".show version failed">>,
                              DeadlineExceeded),
                         Line("SUGGEST", "mgmt", 0, <<SuggestNetwork>>, NilErr) >>
             /\ out[1].ms <= stepTimeout
             /\ pc = "exited" /\ exitCode = 1
             /\ Len(calls) = 1

\* the management call of a probe with a configured timeout ran into it
C10_Witness ==
    /\ mode = "probe" /\ pc = "exited" /\ exitCode = 1
    /\ stepTimeout # DefaultStepTimeout
    /\ Len(calls) = 1 /\ Len(out) = 2
    /\ out[1].err = DeadlineExceeded /\ out[1].ms = stepTimeout

-----------------------------------------------------------------------------
(* C11: the initializer can be run again *)

\* the rows of the sample table that carry the expected marker
Matching(rows) == Cardinality({ i \in DOMAIN rows : rows[i] = expectMsg })

IsPrefix(a, b) == Len(a) <= Len(b) /\ SubSeq(b, 1, Len(a)) = a

\* C11: in every run of the initializer the create-or-merge command is the
\* first call and the append command the second, and the append is not issued
\* when create-or-merge failed; a run that returns normally has added exactly
\* one row, carrying the expected marker; no run fails with the service
\* refusing a table or a row that is already there; after n runs that returned
\* normally the table holds at least n rows with the marker, and the rows that
\* were there before are all still there, in place.
C11_Repeatable ==
    /\ Len(calls) <= 2
    /\ Len(calls) >= 1 => calls[1] = Call("Mgmt", database, CreateCommand)
    /\ Len(calls) = 2 =>
         /\ calls[2] = Call("Mgmt", database, AppendCommand(expectMsg))
         /\ fatal # "failed to create/merge sample table"
    /\ fatal = "failed to create/merge sample table" => Len(calls) = 1
    /\ (pc = "exited" /\ exitCode = 0) =>
         /\ remote.exists
         /\ remote.rows = Append(runs.start, expectMsg)
    /\ runs.err \in {NilErr, DeadlineExceeded} \cup ServiceErrors
    /\ Matching(remote.rows) >= Matching(runs.rows0) + runs.ok
    /\ Matching(remote.rows) >= runs.ok
    /\ IsPrefix(runs.start, remote.rows)
    /\ IsPrefix(runs.rows0, remote.rows)

\* a second run returned normally against the table a first run left, which
\* held a row before either of them
C11_Witness ==
    /\ runs.n = 2 /\ runs.ok = 2
    /\ pc = "exited" /\ exitCode = 0
    /\ runs.rows0 # <<>>
    /\ Len(remote.rows) = Len(runs.rows0) + 2
    /\ Matching(remote.rows) >= 2

-----------------------------------------------------------------------------
(* C12: no remote call is retried *)

\* the remote calls of a run of each mode, in the order of their call sites
CallSites ==
    CASE mode = "probe" ->
           << Call("Mgmt", "", <<".show version">>),
              Call("Query", database, <<"print 1">>),
              Call("IterativeQuery", database, SampleQuery(expectMsg)) >>
      [] mode = "init" ->
           << Call("Mgmt", database, CreateCommand),
              Call("Mgmt", database, AppendCommand(expectMsg)) >>
      [] OTHER ->
           << Call("IterativeQuery", database, DefaultQuery) >>

\* the run has reported that its k-th remote call failed
CallFailed(k) ==
    CASE mode = "probe" ->
           \E i \in 1..Len(out) : IsStepLine(out[i], "FAIL", k)
      [] mode = "init" ->
           \/ k = 1 /\ fatal = "failed to create/merge sample table"
           \/ k = 2 /\ fatal = "failed to append sample row"
      [] OTHER ->
           k = 1 /\ fatal = "query submission failed"

\* the run has reported a failure of any kind
RunFailed ==
    \/ exitCode > 0
    \/ fatal # ""
    \/ mode = "probe" /\ FirstFail # 0

NoCallTwice ==
    /\ IsPrefix(calls, CallSites)
    /\ \A i, j \in 1..Len(calls) : i # j => calls[i] # calls[j]

FailureIsTerminal ==
    /\ RunFailed => pc = "exited" /\ exitCode = 1
    /\ \A k \in 1..3 : CallFailed(k) => Len(calls) = k

OneNewCallAtATime ==
    calls' # calls =>
        /\ ~RunFailed
        /\ Len(calls') = Len(calls) + 1
        /\ SubSeq(calls', 1, Len(calls)) = calls
        /\ \A i \in 1..Len(calls) : calls[i] # calls'[Len(calls')]

\* C12: in every run of every mode the remote calls issued are a prefix of
\* the mode's call sites, each issued at most once; a step issues at most one
\* new call, never one already issued and never after a failure was reported;
\* a reported failure has ended the run with status 1, and when it is the
\* failure of the k-th call, exactly k calls were issued: none follows it.
C12_NoRetry ==
    /\ [](NoCallTwice /\ FailureIsTerminal)
    /\ [][OneNewCallAtATime]_vars

\* a probe run ended by the failure of its second call, the database query
C12_Witness ==
    /\ mode = "probe" /\ pc = "exited"
    /\ CallFailed(2)
    /\ calls = SubSeq(CallSites, 1, 2)

-----------------------------------------------------------------------------
(* C13: one classification per failed step, the first that matches *)

Category(hit, msg, suggest) == [hit |-> hit, msg |-> msg, suggest |-> suggest]

\* the ordered categories of step k for the error e: whether e matches, the
\* message of the FAIL line and the remediation; the last one always matches
Categories(k, e) ==
    CASE k = 1 ->
           << Category(isNetworkErr(e), <<".show version failed">>, SuggestNetwork),
              Category(looksLikeAAD(e) \/ isAuthErr(e), <<".show version failed">>, SuggestAuth),
              Category(TRUE, <<".show version failed">>, SuggestUnknown) >>
      [] k = 2 ->
           << Category(isDatabaseNotFound(e), <<"basic query failed">>, SuggestDbMiss),
              Category(isPermissionErr(e), <<"basic query failed">>, SuggestDbPerm),
              Category(TRUE, <<"basic query failed">>, SuggestDbOther) >>
      [] OTHER ->
           << Category(isTableNotFound(e), <<"sample table not found: ", sampleTable>>,
                       SuggestInitTbl),
              Category(isPermissionErr(e), <<"no access to sample table: ", sampleTable>>,
                       suggestionForPermissions),
              Category(TRUE, <<"query failed for sample table">>, suggestionForQuery) >>

FirstMatch(cats) ==
    cats[CHOOSE i \in 1..Len(cats) : cats[i].hit /\ \A j \in 1..(i - 1) : ~cats[j].hit]

StepOf(l) == CHOOSE k \in 1..3 : ProbeStepNames[k] = l.step

\* line i of out reports a probe step that failed with an error
IsStepError(i) ==
    /\ out[i].status = "FAIL"
    /\ ~out[i].err.nil
    /\ \E k \in 1..3 : ProbeStepNames[k] = out[i].step

\* C13: a probe step that failed with an error is reported by exactly one
\* FAIL line followed by exactly one remediation line, and nothing after them;
\* the message and the remediation are those of the first category, in the
\* step's fixed order, whose predicate the error matches (step 1: network,
\* authentication, unknown; step 2: database not found, permission, generic;
\* step 3: table not found, permission, generic), also when the error matches
\* a later category as well.
C13_FirstMatch ==
    mode = "probe" =>
        /\ Cardinality({ i \in 1..Len(out) : out[i].status = "FAIL" }) <= 1
        /\ Cardinality({ i \in 1..Len(out) : out[i].status = "SUGGEST" }) <= 1
        /\ \A i \in 1..Len(out) :
             IsStepError(i) =>
                 LET c == FirstMatch(Categories(StepOf(out[i]), out[i].err))
                 IN  /\ out[i].msg = c.msg
                     /\ Len(out) = i + 1
                     /\ out[i + 1] = Line("SUGGEST", out[i].step, 0, <<c.suggest>>, NilErr)

\* step 3 failed with an error that matches both the table-not-found and the
\* permission patterns, and was reported as table not found
C13_Witness ==
    /\ mode = "probe" /\ pc = "exited"
    /\ \E i \in 1..Len(out) :
         /\ IsStepError(i)
         /\ out[i].step = "data-sample"
         /\ isTableNotFound(out[i].err) /\ isPermissionErr(out[i].err)
         /\ out[i].msg = <<"sample table not found: ", sampleTable>>
         /\ out[i + 1].msg = <<SuggestInitTbl>>

=============================================================================
